---- MODULE Spec2Model ----
(***************************************************************************)
(* Model of lunash (src/main.rs): script resolution (find_script), the     *)
(* launcher (main), the HTTP module's use of the shared client mutex and   *)
(* RegexWrapper::captures.                                                 *)
(***************************************************************************)
EXTENDS Integers, Sequences, FiniteSets, TLC

\* ---------------------------------------------------------------- bounds
MaxPathLen == 3     \* characters in LUA_SCRIPT_PATH
MaxCalls   == 2     \* native calls the guest script makes
MaxGroups  == 3     \* capture groups of a pattern (besides group 0)

\* ------------------------------------------------------------ file system
\* A directory is written as the sequence of its characters.  The relative
\* path "<name>.lunash.lua" lives in the directory <<>> (the cwd).
Cwd     == <<>>
UserDir == <<"U">>                 \* data_local_dir()/scripts
PathChars == {"a", "b", ":"}       \* alphabet of LUA_SCRIPT_PATH
KnownDirs == {Cwd, UserDir, <<"a">>, <<"b">>}
Kinds == {"absent", "file", "dir"}

None == <<>>
Some(x) == <<x>>

VARIABLES
  kind,        \* what "<dir>/<name>.lunash.lua" is, for each known dir
  projDirs,    \* ProjectDirs::from(..) is Some
  pathVar,     \* env::var("LUA_SCRIPT_PATH"): None or Some(string)
  pc,          \* position of main / find_script / the guest
  idx,         \* position of the loop over path_var.split(':')
  probed,      \* directories on which exists() was called, in order
  found,       \* result of find_script
  client,      \* http_client was created
  lua,         \* the interpreter was created
  appData,     \* lua.set_app_data was called
  globals,     \* names bound in lua.globals()
  source,      \* fs::read_to_string succeeded
  compiled,    \* the chunk was compiled
  executed,    \* script code has started to run
  lock,        \* the client mutex: "free" or "held"
  poisoned,    \* the client mutex is poisoned
  calls,       \* native calls the guest has started
  sent,        \* requests handed to the transport
  cur,         \* the native call in progress
  lastResult,  \* what the last native call gave the guest
  exit,        \* outcome of the process
  caps,        \* Regex::captures result: None or Some(groups)
  ci,          \* position of the loop over caps.iter().enumerate()
  table        \* the table captures builds

vars == <<kind, projDirs, pathVar, pc, idx, probed, found, client, lua,
          appData, globals, source, compiled, executed, lock, poisoned,
          calls, sent, cur, lastResult, exit, caps, ci, table>>

fsVars   == <<kind, projDirs, pathVar>>
findVars == <<idx, probed, found>>
hostVars == <<client, lua, appData, globals, source, compiled, executed>>
httpVars == <<lock, poisoned, sent>>
callVars == <<calls, cur, lastResult>>
capVars  == <<caps, ci, table>>

\* Path::exists(): true for anything present, a directory included.
Exists(d) == d \in KnownDirs /\ kind[d] # "absent"

\* str::split(':') : always at least one piece, "" gives [""].
RECURSIVE Split(_)
Split(s) ==
  IF \A i \in 1..Len(s) : s[i] # ":"
  THEN <<s>>
  ELSE LET k == CHOOSE i \in 1..Len(s) :
                  s[i] = ":" /\ \A j \in 1..(i-1) : s[j] # ":"
       IN <<SubSeq(s, 1, k-1)>> \o Split(SubSeq(s, k+1, Len(s)))

PathEntries == IF pathVar = None THEN <<>> ELSE Split(pathVar[1])

Strings(n) == UNION {[1..m -> PathChars] : m \in 0..n}

\* -------------------------------------------------------------- find_script
FindNone == None

ProbeLocal ==
  /\ pc = "find_local"
  /\ probed' = Append(probed, Cwd)
  /\ IF Exists(Cwd)
     THEN found' = Some(Cwd) /\ pc' = "find_done"
     ELSE found' = found /\ pc' = "find_user"
  /\ UNCHANGED <<fsVars, idx, hostVars, httpVars, callVars, exit, capVars>>

\* mutant: a hit in the user directory is recorded but the search goes on
ProbeUserNoReturn ==
  /\ pc = "find_user"
  /\ IF projDirs
     THEN /\ probed' = Append(probed, UserDir)
          /\ found' = IF Exists(UserDir) THEN Some(UserDir) ELSE found
          /\ pc' = "find_path"
     ELSE probed' = probed /\ found' = found /\ pc' = "find_path"
  /\ UNCHANGED <<fsVars, idx, hostVars, httpVars, callVars, exit, capVars>>

ProbeUser ==
  /\ pc = "find_user"
  /\ IF projDirs
     THEN /\ probed' = Append(probed, UserDir)
          /\ IF Exists(UserDir)
             THEN found' = Some(UserDir) /\ pc' = "find_done"
             ELSE found' = found /\ pc' = "find_path"
     ELSE probed' = probed /\ found' = found /\ pc' = "find_path"
  /\ UNCHANGED <<fsVars, idx, hostVars, httpVars, callVars, exit, capVars>>

ProbePath ==
  /\ pc = "find_path"
  /\ idx <= Len(PathEntries)
  /\ LET d == PathEntries[idx] IN
       /\ probed' = Append(probed, d)
       /\ IF Exists(d)
          THEN found' = Some(d) /\ pc' = "find_done" /\ idx' = idx
          ELSE found' = found /\ pc' = pc /\ idx' = idx + 1
  /\ UNCHANGED <<fsVars, hostVars, httpVars, callVars, exit, capVars>>

ReturnNone ==
  /\ pc = "find_path"
  /\ idx > Len(PathEntries)
  /\ found' = FindNone
  /\ pc' = "find_done"
  /\ UNCHANGED <<fsVars, idx, probed, hostVars, httpVars, callVars, exit,
                 capVars>>

\* --------------------------------------------------------------------- main
Modules == {"fs", "stringx", "clipboard", "regex", "http", "arg"}

Pending == <<>>
ExitOk == <<0, "">>
Err(msg) == <<1, msg>>
Panicked(msg) == <<101, msg>>

\* `?` on a failed step: main returns the error, the process ends.
Abort(msg) ==
  /\ exit' = Err(msg)
  /\ pc' = "exited"

\* mutant: the missing script is not reported, main goes on
NotFoundContinue == pc' = "client" /\ exit' = exit

\* let script_path = find_script(..).ok_or_else(..)?;
NotFoundExit == Abort("Script not found")

MainResolve ==
  /\ pc = "find_done"
  /\ IF found = None
     THEN NotFoundExit
     ELSE pc' = "client" /\ exit' = exit
  /\ UNCHANGED <<fsVars, findVars, hostVars, httpVars, callVars, capVars>>

\* Arc::new(Mutex::new(Client::new())): Client::new() panics on failure.
CreateClient ==
  /\ pc = "client"
  /\ \E ok \in BOOLEAN :
       IF ok
       THEN client' = TRUE /\ pc' = "lua" /\ exit' = exit
       ELSE client' = client /\ pc' = "exited"
            /\ exit' = Panicked("Client::new")
  /\ UNCHANGED <<fsVars, findVars, lua, appData, globals, source, compiled,
                 executed, httpVars, callVars, capVars>>

\* Lua::new_with(StdLib::ALL_SAFE, ..catch_rust_panics(true))?
CreateLua ==
  /\ pc = "lua"
  /\ \E ok \in BOOLEAN :
       IF ok
       THEN lua' = TRUE /\ pc' = "appdata" /\ exit' = exit
       ELSE lua' = lua /\ Abort("Lua::new_with")
  /\ UNCHANGED <<fsVars, findVars, client, appData, globals, source,
                 compiled, executed, httpVars, callVars, capVars>>

SetAppData ==
  /\ pc = "appdata"
  /\ appData' = TRUE
  /\ pc' = "bind_fs"
  /\ UNCHANGED <<fsVars, findVars, client, lua, globals, source, compiled,
                 executed, httpVars, callVars, exit, capVars>>

\* globals.set(name, value)?  -- a failure ends main.
Bind(name, at, next) ==
  /\ pc = at
  /\ \E ok \in BOOLEAN :
       IF ok
       THEN globals' = globals \cup {name} /\ pc' = next /\ exit' = exit
       ELSE globals' = globals /\ Abort(name)
  /\ UNCHANGED <<fsVars, findVars, client, lua, appData, source, compiled,
                 executed, httpVars, callVars, capVars>>

BindFs        == Bind("fs", "bind_fs", "bind_stringx")
BindStringx   == Bind("stringx", "bind_stringx", "bind_clipboard")
BindClipboard == Bind("clipboard", "bind_clipboard", "bind_regex")

\* let _ = globals.set("regex", lua.create_function(..)?);
\* create_function's failure ends main; the result of set is dropped.
BindRegex ==
  /\ pc = "bind_regex"
  /\ \E created \in BOOLEAN, ok \in BOOLEAN :
       IF ~created
       THEN globals' = globals /\ Abort("regex")
       ELSE /\ globals' = IF ok THEN globals \cup {"regex"} ELSE globals
            /\ pc' = "bind_http"
            /\ exit' = exit
  /\ UNCHANGED <<fsVars, findVars, client, lua, appData, source, compiled,
                 executed, httpVars, callVars, capVars>>

BindHttp == Bind("http", "bind_http", "bind_arg")

\* create_table()?, arg_table.set(..)? for each argument, globals.set("arg")?
BindArg == Bind("arg", "bind_arg", "read")

\* fs::read_to_string(&script_path).map_err(..)?
Readable(d) == d \in KnownDirs /\ kind[d] = "file"

ReadSource ==
  /\ pc = "read"
  /\ IF Readable(found[1])
     THEN source' = TRUE /\ pc' = "load" /\ exit' = exit
     ELSE source' = source /\ Abort("read_to_string")
  /\ UNCHANGED <<fsVars, findVars, client, lua, appData, globals, compiled,
                 executed, httpVars, callVars, capVars>>

\* lua.load(&script).set_name(..).exec()? : compile, then run.
Compile ==
  /\ pc = "load"
  /\ \E ok \in BOOLEAN :
       IF ok
       THEN compiled' = TRUE /\ executed' = TRUE /\ pc' = "guest"
            /\ exit' = exit
       ELSE compiled' = compiled /\ executed' = executed
            /\ Abort("syntax error")
  /\ UNCHANGED <<fsVars, findVars, client, lua, appData, globals, source,
                 httpVars, callVars, capVars>>

\* -------------------------------------------------------------------- guest
\* The script is a sequence of native calls, each made inside pcall
\* (protected) or at the top level of the chunk.
HttpOps   == {"http.get", "http.post"}
NativeOps == {"fs.readlink", "fs.dirname", "regex", "clipboard.set",
              "clipboard.get", "clipboard.get_image"}

\* What a module operation can do.  The fs.dirname attribute unwraps
\* to_str() (a panic on a non-UTF-8 cwd) besides `?` on current_dir().
Outcomes(op) ==
  IF op = "fs.dirname" THEN {"ok", "err", "panic"} ELSE {"ok", "err"}

Idle     == <<"", FALSE>>
NoResult == <<"none", "", 0>>
\* an Ok(..) return: the operation, and for http the response it carries
Value(op, n)  == <<"ok", op, n>>
Failure(msg)  == <<"err", msg, 0>>
Panic(msg)    == <<"panic", msg, 0>>

NotAvailable == Failure("HTTP client not available")
LockPoisoned == Failure("HTTP client lock poisoned")

\* mutant: a failed native call ends the process whoever called it
DeliverFatal(res, protected) ==
  IF res[1] = "ok"
  THEN pc' = "guest" /\ exit' = exit /\ lastResult' = res
  ELSE /\ pc' = "exited"
       /\ lastResult' = lastResult
       /\ exit' = IF res[1] = "panic" THEN Panicked(res[2]) ELSE Err(res[2])

\* A native function returns `res` to the interpreter.  Err(RuntimeError)
\* is raised as a guest error; with catch_rust_panics(true) so is a panic.
\* pcall turns either into a value; at the top level exec() returns the
\* error to main (`?`), or resumes the panic.
Deliver(res, protected) ==
  IF res[1] = "ok" \/ protected
  THEN pc' = "guest" /\ exit' = exit /\ lastResult' = res
  ELSE /\ pc' = "exited"
       /\ lastResult' = lastResult
       /\ exit' = IF res[1] = "panic" THEN Panicked(res[2]) ELSE Err(res[2])

GuestCallHttp ==
  /\ pc = "guest"
  /\ calls < MaxCalls
  /\ \E op \in HttpOps, protected \in BOOLEAN : cur' = <<op, protected>>
  /\ calls' = calls + 1
  /\ pc' = "http_enter"
  /\ UNCHANGED <<fsVars, findVars, hostVars, httpVars, lastResult, exit,
                 capVars>>

GuestCallNative ==
  /\ pc = "guest"
  /\ calls < MaxCalls
  /\ \E op \in NativeOps, protected \in BOOLEAN : cur' = <<op, protected>>
  /\ calls' = calls + 1
  /\ pc' = "native"
  /\ UNCHANGED <<fsVars, findVars, hostVars, httpVars, lastResult, exit,
                 capVars>>

\* fs / regex / clipboard operations: Ok(..) or map_err(RuntimeError).
NativeReturn ==
  /\ pc = "native"
  /\ \E o \in Outcomes(cur[1]) :
       Deliver(CASE o = "ok"    -> Value(cur[1], 0)
                 [] o = "err"   -> Failure(cur[1])
                 [] o = "panic" -> Panic(cur[1]),
               cur[2])
  /\ cur' = Idle
  /\ UNCHANGED <<fsVars, findVars, hostVars, httpVars, calls, capVars>>

\* mutant: the poisoned guard is taken out of the error and used
OnPoisonedRecover ==
  /\ lock' = "held"
  /\ pc' = "http_send"
  /\ UNCHANGED <<cur, lastResult, exit>>

\* lock().map_err(|_| RuntimeError("HTTP client lock poisoned"))?
OnPoisoned ==
  /\ Deliver(LockPoisoned, cur[2])
  /\ cur' = Idle
  /\ lock' = lock

\* app_data_ref::<Arc<Mutex<Client>>>().ok_or_else(..)? ; client.lock()
HttpEnter ==
  /\ pc = "http_enter"
  /\ IF ~appData
     THEN Deliver(NotAvailable, cur[2]) /\ cur' = Idle /\ lock' = lock
     ELSE /\ lock = "free"
          /\ IF poisoned
             THEN OnPoisoned
             ELSE /\ lock' = "held"
                  /\ pc' = "http_send"
                  /\ UNCHANGED <<cur, lastResult, exit>>
  /\ UNCHANGED <<fsVars, findVars, hostVars, poisoned, sent, calls, capVars>>

\* mutant: the guard outlives the call
GuardKept == "held"

\* The MutexGuard is a temporary of the `let response = ..;` statement: it is
\* dropped when the statement ends, on the `?` path and on unwinding too.
GuardAfterSend == "free"

\* .get(&url).send() / .post(&url).body(body).send()
HttpSend ==
  /\ pc = "http_send"
  /\ sent' = sent + 1
  /\ lock' = GuardAfterSend
  /\ \E o \in {"ok", "err", "panic"} :
       /\ poisoned' = (poisoned \/ o = "panic")
       /\ IF o = "ok"
          THEN pc' = "http_text" /\ UNCHANGED <<cur, lastResult, exit>>
          ELSE /\ Deliver(IF o = "err" THEN Failure("send")
                                       ELSE Panic("send"), cur[2])
               /\ cur' = Idle
  /\ UNCHANGED <<fsVars, findVars, hostVars, calls, capVars>>

\* response.text().map_err(..)? ; lua.create_string(&text)
HttpText ==
  /\ pc = "http_text"
  /\ \E o \in {"ok", "err"} :
       Deliver(IF o = "ok" THEN Value(cur[1], sent) ELSE Failure("text"),
               cur[2])
  /\ cur' = Idle
  /\ UNCHANGED <<fsVars, findVars, hostVars, httpVars, calls, capVars>>

\* error(..) raised by the script itself outside any pcall.
GuestRaise ==
  /\ pc = "guest"
  /\ Abort("runtime error")
  /\ UNCHANGED <<fsVars, findVars, hostVars, httpVars, callVars, capVars>>

\* The chunk returns: exec() is Ok, main returns Ok(()).
GuestFinish ==
  /\ pc = "guest"
  /\ exit' = ExitOk
  /\ pc' = "exited"
  /\ UNCHANGED <<fsVars, findVars, hostVars, httpVars, callVars, capVars>>

\* ---------------------------------------------------- RegexWrapper::captures
\* A capture group is None (did not participate) or Some(text).
Texts == {"x", "y"}
Group == {None} \cup {Some(t) : t \in Texts}
Matches(n) ==
  UNION {{g \in [1..m -> Group] : g[1] # None} : m \in 1..(n + 1)}
CapInputs == {None} \cup {Some(g) : g \in Matches(MaxGroups)}

\* table.set(i + 1, cap.as_str())
TableSet(t, i, text) == {e \in t : e[1] # i + 1} \cup {<<i + 1, text>>}

CapturesStep ==
  /\ pc = "cap_loop"
  /\ caps # None
  /\ ci < Len(caps[1])
  /\ LET cap == caps[1][ci + 1] IN
       table' = IF cap # None THEN TableSet(table, ci, cap[1]) ELSE table
  /\ ci' = ci + 1
  /\ UNCHANGED <<fsVars, pc, findVars, hostVars, httpVars, callVars, exit,
                 caps>>

CapturesReturn ==
  /\ pc = "cap_loop"
  /\ IF caps = None THEN TRUE ELSE ci >= Len(caps[1])
  /\ pc' = "cap_done"
  /\ UNCHANGED <<fsVars, findVars, hostVars, httpVars, callVars, exit,
                 capVars>>

\* ------------------------------------------------------------ specifications
InitProgram ==
  /\ idx = 1 /\ probed = <<>> /\ found = None
  /\ client = FALSE /\ lua = FALSE /\ appData = FALSE /\ globals = {}
  /\ source = FALSE /\ compiled = FALSE /\ executed = FALSE
  /\ lock = "free" /\ poisoned = FALSE /\ calls = 0 /\ sent = 0
  /\ cur = Idle /\ lastResult = NoResult /\ exit = Pending

\* LUA_SCRIPT_PATH when a whole run is followed: unset, empty, one directory
RunPaths == {None, Some(<<>>), Some(<<"a">>)}

NoCaptures == caps = None /\ ci = 0 /\ table = {}

\* `lunash run <name>`
Init ==
  /\ kind \in {k \in [KnownDirs -> Kinds] : k[<<"b">>] = "absent"}
  /\ projDirs \in BOOLEAN
  /\ pathVar \in RunPaths
  /\ InitProgram
  /\ NoCaptures
  /\ pc = "find_local"

Next ==
  \/ ProbeLocal \/ ProbeUser \/ ProbePath \/ ReturnNone
  \/ MainResolve \/ CreateClient \/ CreateLua \/ SetAppData
  \/ BindFs \/ BindStringx \/ BindClipboard \/ BindRegex \/ BindHttp
  \/ BindArg \/ ReadSource \/ Compile
  \/ GuestCallHttp \/ GuestCallNative \/ NativeReturn
  \/ HttpEnter \/ HttpSend \/ HttpText \/ GuestRaise \/ GuestFinish

Spec == Init /\ [][Next]_vars

\* find_script(name) alone, over every file system of the bounds
InitResolve ==
  /\ kind \in [KnownDirs -> Kinds]
  /\ projDirs \in BOOLEAN
  /\ pathVar \in {None} \cup {Some(s) : s \in Strings(MaxPathLen)}
  /\ InitProgram
  /\ NoCaptures
  /\ pc = "find_local"

NextResolve == ProbeLocal \/ ProbeUser \/ ProbePath \/ ReturnNone

SpecResolve == InitResolve /\ [][NextResolve]_vars

\* captures(text) alone, over every match result of the bounds
InitCaptures ==
  /\ kind = [d \in KnownDirs |-> "absent"]
  /\ projDirs = FALSE
  /\ pathVar = None
  /\ InitProgram
  /\ caps \in CapInputs /\ ci = 0 /\ table = {}
  /\ pc = "cap_loop"

NextCaptures == CapturesStep \/ CapturesReturn

SpecCaptures == InitCaptures /\ [][NextCaptures]_vars

\* -------------------------------------------------------------------- claims
\* The locations find_script is said to probe, in the order of the tiers.
Order ==
  <<Cwd>> \o (IF projDirs THEN <<UserDir>> ELSE <<>>) \o PathEntries

Hits == {i \in 1..Len(Order) : Exists(Order[i])}
FirstHit == CHOOSE i \in Hits : \A j \in Hits : i <= j

\* C1: find_script probes cwd, then the user scripts directory, then the
\* LUA_SCRIPT_PATH directories in the order listed; it returns the earliest
\* location where the file exists and probes nothing after it.
C1_FirstMatchWins ==
  /\ probed = SubSeq(Order, 1, Len(probed))
  /\ \A i \in 1..(Len(probed) - 1) : ~Exists(probed[i])
  /\ pc = "find_done" =>
       IF Hits = {}
       THEN found = None /\ probed = Order
       ELSE found = Some(Order[FirstHit]) /\ probed = SubSeq(Order, 1, FirstHit)

\* a script in tier 1 while tiers 2 and 3 hold one too: only tier 1 is probed
C1_Witness ==
  /\ pc = "find_done"
  /\ found = Some(Cwd)
  /\ probed = <<Cwd>>
  /\ projDirs /\ Exists(UserDir)
  /\ pathVar = Some(<<"b", ":", "a">>) /\ Exists(<<"a">>)

Searching == pc \in {"find_local", "find_user", "find_path"}

\* C2: when the file exists in none of the tiers, find_script returns None,
\* main ends with "Script not found" (an error value, no panic), and the
\* client and the interpreter are never created and no script code runs.
C2_NotFound ==
  Hits = {} =>
    /\ ~client /\ ~lua /\ ~executed /\ calls = 0
    /\ ~Searching => found = None
    /\ pc = "exited" => exit = Err("Script not found")

\* the data directory is unknown (though a script lies there) and
\* LUA_SCRIPT_PATH is set but empty
C2_Witness ==
  /\ pc = "exited"
  /\ exit = Err("Script not found")
  /\ ~projDirs /\ kind[UserDir] = "file"
  /\ pathVar = Some(<<>>)

\* C3: the client mutex is held only while a request is being issued: it is
\* free whenever the guest runs (so the next get/post takes it at once), each
\* call issues at most one request, and a call that completes hands the
\* guest the body of its own response.
C3_LockReleased ==
  /\ lock = "held" => pc = "http_send"
  /\ sent <= calls
  /\ (pc = "guest" /\ lastResult[1] = "ok" /\ lastResult[2] \in HttpOps)
       => lastResult[3] = sent

\* two get calls in a row have completed, the second with the second body
C3_Witness ==
  /\ pc = "guest"
  /\ calls = 2 /\ sent = 2
  /\ lastResult = Value("http.get", 2)
  /\ lock = "free" /\ ~poisoned

InHttpCall == pc \in {"http_enter", "http_send", "http_text"}

\* C4: a get/post that finds the mutex poisoned or no client registered
\* sends nothing and raises a 'client unavailable' error (not a transport
\* error): a protected call continues in the guest with that error value,
\* the process is not ended by the call, and the lock is left as found.
C4_Unavailable ==
  [][(pc = "http_enter" /\ (poisoned \/ ~appData) /\ pc' # pc) =>
       /\ sent' = sent /\ lock' = lock /\ poisoned' = poisoned
       /\ pc' # "http_send"
       /\ IF cur[2]
          THEN /\ pc' = "guest" /\ exit' = Pending
               /\ lastResult' \in {LockPoisoned, NotAvailable}
          ELSE /\ pc' = "exited"
               /\ exit' \in {Err(LockPoisoned[2]), Err(NotAvailable[2])}]_vars

\* the second call found the lock poisoned by the first: one request only
C4_Witness ==
  /\ pc = "guest"
  /\ poisoned
  /\ lastResult = LockPoisoned
  /\ calls = 2 /\ sent = 1
  /\ lock = "free"

\* C5: script code never starts running in a session where one of fs,
\* stringx, clipboard, regex, http, arg is not bound.
C5_AllBoundBeforeRun == executed => Modules \subseteq globals

\* C6: script code runs only after the interpreter was created, all modules
\* and arg were registered and the source was read and compiled; a source
\* that fails to read or compile ends the session with no code run.
C6_SessionOrder ==
  /\ executed => (lua /\ appData /\ source /\ compiled
                  /\ \A m \in Modules : m \in globals)
  /\ exit \in {Err("read_to_string"), Err("syntax error")} => ~executed

\* C7: exit status 0 exactly when the script was resolved, set up, compiled
\* and run to completion; every failure ends with a non-zero status.
C7_ExitStatus ==
  pc = "exited" =>
    (exit[1] = 0 <=>
       /\ found # None
       /\ client /\ lua /\ globals = Modules
       /\ source /\ compiled /\ executed
       /\ exit = ExitOk)

Returns == (pc = "native" \/ InHttpCall) /\ pc' \notin {"native", "http_enter", "http_send", "http_text"}

\* C8: a native operation that returns to a protected caller never ends the
\* process: the guest goes on with the result (an error value on failure);
\* the process ends on a native failure only when the call was unprotected.
C8_FailuresAreValues ==
  [][Returns =>
       /\ cur[2] => (pc' = "guest" /\ exit' = Pending)
       /\ pc' = "exited" => (~cur[2] /\ exit'[1] # 0)
       /\ pc' \in {"guest", "exited"}]_vars

\* a script that caught a native failure and then ran to its end
C8_Witness ==
  /\ exit = ExitOk
  /\ lastResult[1] \in {"err", "panic"}

\* The participating groups of a match, in pattern order.
RECURSIVE Matched(_)
Matched(g) ==
  IF g = <<>> THEN <<>>
  ELSE (IF Head(g) = None THEN <<>> ELSE <<Head(g)[1]>>) \o Matched(Tail(g))

\* C9: captures returns the sequence 1..n of the full match and the matched
\* groups in pattern order, unmatched groups left out and no holes; an empty
\* sequence when there is no match.
C9_CapturesIsSequence ==
  pc = "cap_done" =>
    IF caps = None
    THEN table = {}
    ELSE LET m == Matched(caps[1]) IN
           table = {<<k, m[k]>> : k \in 1..Len(m)}

LoadableSomewhere == \E i \in 1..Len(Order) : Readable(Order[i])

\* C10: an entry that is not a loadable file does not match: whenever a
\* loadable script exists in some tier, find_script returns a path whose
\* source main can read.
C10_OnlyFilesMatch ==
  LoadableSomewhere =>
    /\ pc = "find_done" => (found # None /\ Readable(found[1]))
    /\ exit # Err("read_to_string")

====
